---- MODULE Spec2Model ----
(***************************************************************************)
(* LipTrackCalculator (autoflip_calculators/lip_track/lip_track_calculator.cc) *)
(* as a state machine.  One action per calculator entry point: Process     *)
(* (buffer one frame and, when the window spans min_speaker_span, run the   *)
(* whole of ProcessScene) and Close (flush).  Floats are exact rationals    *)
(* [n, d]; [0, 0] is NaN (the result of 0/0).  Timestamps are microseconds. *)
(***************************************************************************)
EXTENDS Integers, Sequences, FiniteSets, TLC

VARIABLES
  options_,                        \* LipTrackCalculatorOptions + which optional output tags exist
  signal_buff_,                    \* std::vector<LipSignal>
  face_bbox_,                      \* detections of the last evaluated frame
  face_statistics_,                \* histories keyed by face index of the last evaluated frame
  meta_face_indices_,              \* face index -> meta face id, last evaluated frame
  speaker_mean_, speaker_variance_,
  pre_dominate_speaker_id_,
  pre_dominate_speaker_detection_,
  last_shot_timestamp_,
  frame_width_, frame_height_,
  state,                           \* "open" | "closed": which entry points may still run
  input_timestamp,                 \* timestamp of the last Process call (-1: none yet)
  call,                            \* what the last call was and returned
  roi_packets,                     \* packets the last call added to DETECTIONS_SPEAKERS
  shot_packets,                    \* packets the last call added to IS_SPEAKER_CHANGE
  scene,                           \* locals of the ProcessScene run of the last call (NoScene: none)
  pending,                         \* timestamps accepted by Process, not yet output on DETECTIONS_SPEAKERS
  roi_in_order,                    \* every DETECTIONS_SPEAKERS packet so far answered the oldest pending frame
  first_timestamp,                 \* timestamp of the first Process call (-1: none yet)
  true_stamps                      \* timestamps of every true sent on IS_SPEAKER_CHANGE so far

vars == <<options_, signal_buff_, face_bbox_, face_statistics_, meta_face_indices_,
          speaker_mean_, speaker_variance_, pre_dominate_speaker_id_,
          pre_dominate_speaker_detection_, last_shot_timestamp_, frame_width_,
          frame_height_, state, input_timestamp, call, roi_packets, shot_packets,
          scene, pending, roi_in_order, true_stamps, first_timestamp>>

----------------------------------------------------------------------------
(* Float arithmetic, exact. *)

RECURSIVE GCD(_, _)
GCD(a, b) == IF b = 0 THEN a ELSE GCD(b, a % b)

Abs(x) == IF x < 0 THEN -x ELSE x

NaN == [n |-> 0, d |-> 0]

IsNaN(a) == a.n = 0 /\ a.d = 0

Rat(n, d) ==
  IF d = 0 THEN [n |-> (IF n > 0 THEN 1 ELSE IF n < 0 THEN -1 ELSE 0), d |-> 0]
  ELSE LET s == IF d < 0 THEN -1 ELSE 1
           g == GCD(Abs(n), Abs(d))
       IN  [n |-> (s * n) \div g, d |-> (s * d) \div g]

Zero == Rat(0, 1)

FAdd(a, b) == IF a.d = 0 \/ b.d = 0 THEN NaN ELSE Rat(a.n * b.d + b.n * a.d, a.d * b.d)

FSub(a, b) == IF a.d = 0 \/ b.d = 0 THEN NaN ELSE Rat(a.n * b.d - b.n * a.d, a.d * b.d)

FMul(a, b) == IF a.d = 0 \/ b.d = 0 THEN NaN ELSE Rat(a.n * b.n, a.d * b.d)

FDiv(a, b) ==
  IF a.d = 0 \/ b.d = 0 THEN NaN
  ELSE IF b.n < 0 THEN Rat(-(a.n * b.d), a.d * (-b.n)) ELSE Rat(a.n * b.d, a.d * b.n)

\* a < b, a > b, a >= b on floats: every comparison with NaN is false.
FLess(a, b) == ~IsNaN(a) /\ ~IsNaN(b) /\ a.n * b.d < b.n * a.d

FGreater(a, b) == FLess(b, a)

FGeq(a, b) == ~IsNaN(a) /\ ~IsNaN(b) /\ a.n * b.d >= b.n * a.d

\* std::sqrt on the squares the model's landmarks produce.
Sqrt(sq) == CHOOSE r \in 0..sq : r * r = sq

----------------------------------------------------------------------------
(* Geometry: cv::Rect2f and GetIOU. *)

DetectionToRect(bbox) ==
  [x |-> bbox.xmin, y |-> bbox.ymin, width |-> bbox.width, height |-> bbox.height]

RectEmpty(r) == r.width <= 0 \/ r.height <= 0

RectArea(r) == r.width * r.height

Min(a, b) == IF a < b THEN a ELSE b

Max(a, b) == IF a > b THEN a ELSE b

\* cv::Rect_ operator& : the intersection, Rect() when there is none
RectAnd(a, b) ==
  LET x1 == Max(a.x, b.x)
      y1 == Max(a.y, b.y)
      w  == Min(a.x + a.width, b.x + b.width) - x1
      h  == Min(a.y + a.height, b.y + b.height) - y1
  IN  IF w <= 0 \/ h <= 0 THEN [x |-> 0, y |-> 0, width |-> 0, height |-> 0]
      ELSE [x |-> x1, y |-> y1, width |-> w, height |-> h]

\* cv::Rect_ operator| : the smallest rectangle that encloses both
RectOr(a, b) ==
  IF RectEmpty(a) THEN b
  ELSE IF RectEmpty(b) THEN a
  ELSE LET x1 == Min(a.x, b.x)
           y1 == Min(a.y, b.y)
       IN  [x |-> x1, y |-> y1,
            width  |-> Max(a.x + a.width, b.x + b.width) - x1,
            height |-> Max(a.y + a.height, b.y + b.height) - y1]

GetIOU(bbox_1, bbox_2) ==
  LET cv_bbox_1 == DetectionToRect(bbox_1)
      cv_bbox_2 == DetectionToRect(bbox_2)
      intersecting_region == RectAnd(cv_bbox_1, cv_bbox_2)
      union_region == RectOr(cv_bbox_1, cv_bbox_2)
  IN  Rat(RectArea(intersecting_region), RectArea(union_region))

----------------------------------------------------------------------------
(* Lip statistics. A NormalizedLandmarkList is [landmark_size, landmark],   *)
(* landmark a function from the lip indices to points [x, y].               *)

kLipLeftInnerCornerIdx == 78

kLipRightInnerCornerIdx == 308

kLipUpperIdx == <<82, 13, 312>>

kLipLowerIdx == <<87, 14, 317>>

kFaceMeshLandmarks == 468

GetDistance(mark_1, mark_2, width, height) ==
  Sqrt(((mark_1.x - mark_2.x) * width) * ((mark_1.x - mark_2.x) * width)
       + ((mark_1.y - mark_2.y) * height) * ((mark_1.y - mark_2.y) * height))

\* the inner loop over kLipUpperIdx: mouth_height += GetDistance(upper, lower)
RECURSIVE AddLipHeights(_, _, _, _, _)
AddLipHeights(landmark_list, i, mouth_height, width, height) ==
  IF i > Len(kLipUpperIdx) THEN mouth_height
  ELSE AddLipHeights(landmark_list, i + 1,
         FAdd(mouth_height,
              Rat(GetDistance(landmark_list.landmark[kLipUpperIdx[i]],
                              landmark_list.landmark[kLipLowerIdx[i]], width, height), 1)),
         width, height)

\* mouth_height is declared outside the loop over the faces and is never reset
RECURSIVE GetStatisticsFrom(_, _, _, _, _, _)
GetStatisticsFrom(landmark_lists, i, mouth_height, lip_statistics, width, height) ==
  IF i > Len(landmark_lists) THEN lip_statistics
  ELSE LET landmark_list == landmark_lists[i] IN
       IF landmark_list.landmark_size < kFaceMeshLandmarks
       THEN GetStatisticsFrom(landmark_lists, i + 1, mouth_height, lip_statistics, width, height)
       ELSE LET mouth_width == Rat(GetDistance(landmark_list.landmark[kLipLeftInnerCornerIdx],
                                               landmark_list.landmark[kLipRightInnerCornerIdx],
                                               width, height), 1)
                summed == AddLipHeights(landmark_list, 1, mouth_height, width, height)
                averaged == FDiv(summed, Rat(Len(kLipUpperIdx), 1))
            IN  GetStatisticsFrom(landmark_lists, i + 1, averaged,
                                  Append(lip_statistics, FDiv(averaged, mouth_width)),
                                  width, height)

GetStatistics(landmark_lists, width, height) ==
  GetStatisticsFrom(landmark_lists, 1, Zero, <<>>, width, height)

----------------------------------------------------------------------------
(* Face association. Face indices and meta face ids are 0-based as in the   *)
(* code, -1 is "none"; element i of a vector is element i + 1 of a sequence. *)

\* variant of PassesThreshold: only an iou above the threshold lets a face through
PassesThresholdStrict(iou) == FGreater(iou, options_.iou_threshold)

\* the comparison that lets a previous face through: iou < threshold skips it
PassesThreshold(iou) == ~FLess(iou, options_.iou_threshold)

RECURSIVE MatchFaceFrom(_, _, _, _, _)
MatchFaceFrom(prev_bbox, face_bbox, i, idx, maxi_iou) ==
  IF i >= Len(prev_bbox) THEN idx
  ELSE LET iou == GetIOU(prev_bbox[i + 1], face_bbox) IN
       IF ~PassesThreshold(iou) THEN MatchFaceFrom(prev_bbox, face_bbox, i + 1, idx, maxi_iou)
       ELSE IF FGreater(iou, maxi_iou) THEN MatchFaceFrom(prev_bbox, face_bbox, i + 1, i, iou)
       ELSE MatchFaceFrom(prev_bbox, face_bbox, i + 1, idx, maxi_iou)

\* prev_bbox is face_bbox_ as the frame loop of ProcessScene has it
MatchFace(prev_bbox, face_bbox) == MatchFaceFrom(prev_bbox, face_bbox, 0, -1, Zero)

----------------------------------------------------------------------------
(* Active speaker classifier. *)

RECURSIVE SumFrom(_, _)
SumFrom(values, i) == IF i > Len(values) THEN Zero ELSE FAdd(values[i], SumFrom(values, i + 1))

RECURSIVE SumSquaredDiff(_, _, _)
SumSquaredDiff(values, mean, i) ==
  IF i > Len(values) THEN Zero
  ELSE FAdd(FMul(FSub(values[i], mean), FSub(values[i], mean)),
            SumSquaredDiff(values, mean, i + 1))

\* variant of TooShort: size < variance_history / 2, for a history that has a value
TooShortStrict(face_lip_statistics) ==
  \/ face_lip_statistics = <<>>
  \/ Len(face_lip_statistics) < options_.variance_history \div 2

TooShort(face_lip_statistics) == Len(face_lip_statistics) <= options_.variance_history \div 2

\* variant of MeanShort: a history shorter than mean_history gives its newest value
MeanShortNewest(face_lip_statistics) ==
  IF Len(face_lip_statistics) < options_.mean_history
  THEN face_lip_statistics[Len(face_lip_statistics)]
  ELSE FDiv(SumFrom(face_lip_statistics, Len(face_lip_statistics) - options_.mean_history + 1),
            Rat(options_.mean_history, 1))

MeanShort(face_lip_statistics) ==
  IF Len(face_lip_statistics) < options_.mean_history
  THEN face_lip_statistics[1]
  ELSE FDiv(SumFrom(face_lip_statistics, Len(face_lip_statistics) - options_.mean_history + 1),
            Rat(options_.mean_history, 1))

Variance(face_lip_statistics) ==
  LET mean == FDiv(SumFrom(face_lip_statistics, 1), Rat(Len(face_lip_statistics), 1))
  IN  FDiv(SumSquaredDiff(face_lip_statistics, mean, 1), Rat(Len(face_lip_statistics), 1))

BigMouth(mean_short, variance, mean_before) ==
  /\ FGeq(mean_short, options_.lip_mean_threshold_big_mouth)
  /\ FGeq(variance, options_.lip_variance_threshold_big_mouth)
  /\ FGreater(mean_short, mean_before)

SmallMouth(mean_short, variance, variance_before) ==
  /\ FGeq(mean_short, options_.lip_mean_threshold_small_mouth)
  /\ FGeq(variance, options_.lip_variance_threshold_small_mouth)
  /\ FGreater(variance, variance_before)

\* the final test of IsActiveSpeaker and its writes to speaker_mean_, speaker_variance_
Classify(mean_short, variance, mean_before, variance_before) ==
  IF BigMouth(mean_short, variance, mean_before)
     \/ SmallMouth(mean_short, variance, variance_before)
  THEN [active |-> TRUE, speaker_mean |-> mean_short, speaker_variance |-> variance]
  ELSE [active |-> FALSE, speaker_mean |-> mean_before, speaker_variance |-> variance_before]

\* returns the result and the two members the call may write
IsActiveSpeaker(face_lip_statistics, mean_before, variance_before) ==
  IF TooShort(face_lip_statistics)
  THEN [active |-> FALSE, speaker_mean |-> mean_before, speaker_variance |-> variance_before]
  ELSE Classify(MeanShort(face_lip_statistics), Variance(face_lip_statistics),
                mean_before, variance_before)

----------------------------------------------------------------------------
(* ProcessScene, first loop: the speaker of each buffered frame. *)

kTimestampUnitsPerSecond == 1000000

\* variant of TrimHistory: pop_back() in place of pop_front()
TrimHistoryNewest(history) ==
  SubSeq(history, 1, Min(Len(history), options_.variance_history))

\* while (size > variance_history) pop_front()
RECURSIVE TrimHistory(_)
TrimHistory(history) ==
  IF Len(history) > options_.variance_history THEN TrimHistory(Tail(history)) ELSE history

\* statistics[cur_face_idx]: a read past the end of the vector yields whatever lies there
StatisticAt(statistics, cur_face_idx, garbage) ==
  IF cur_face_idx < Len(statistics) THEN statistics[cur_face_idx + 1] ELSE garbage

\* cur_face_statistics[cur_face_idx] after the statistic of this frame is added
History(prev_statistics, previous_face_idx, value) ==
  IF previous_face_idx # -1
  THEN TrimHistory(Append(prev_statistics[previous_face_idx + 1], value))
  ELSE <<value>>

\* the meta face id the face gets: that of the matched face, or a new one
MetaFaceOf(prev_meta_face_indices, previous_face_idx, meta_face_count) ==
  IF previous_face_idx # -1 THEN prev_meta_face_indices[previous_face_idx + 1]
  ELSE meta_face_count

SetSlot(slots, buff_position, cur_face_idx) ==
  [slots EXCEPT ![buff_position + 1] = cur_face_idx]

\* meta_faces[meta_face_idx][buff_position] = cur_face_idx, after the insert for a new face
UpdateMetaFaces(meta_faces, previous_face_idx, meta_face_idx, buff_position, buff_size, cur_face_idx) ==
  IF previous_face_idx # -1
  THEN [meta_faces EXCEPT ![meta_face_idx + 1] = SetSlot(@, buff_position, cur_face_idx)]
  ELSE Append(meta_faces, SetSlot([i \in 1..buff_size |-> -1], buff_position, cur_face_idx))

\* variant of FaceDone: the first face found speaking stays the frame's speaker
FaceDoneFirstSpeaking(f, buff_position, buff_size, cur_face_idx, previous_face_idx, history, meta_face_idx, verdict) ==
  [cur_face_statistics |-> Append(f.cur_face_statistics, history),
   cur_meta_face_indices |-> Append(f.cur_meta_face_indices, meta_face_idx),
   meta_faces |-> UpdateMetaFaces(f.meta_faces, previous_face_idx, meta_face_idx,
                                  buff_position, buff_size, cur_face_idx),
   meta_face_count |-> IF previous_face_idx # -1 THEN f.meta_face_count
                       ELSE f.meta_face_count + 1,
   cur_speaker_id |-> IF verdict.active /\ f.cur_speaker_id = -1 THEN cur_face_idx ELSE f.cur_speaker_id,
   speaker_mean |-> verdict.speaker_mean,
   speaker_variance |-> verdict.speaker_variance,
   verdicts |-> Append(f.verdicts, verdict)]

\* the locals after one iteration of the loop over cur_face_idx
FaceDone(f, buff_position, buff_size, cur_face_idx, previous_face_idx, history, meta_face_idx, verdict) ==
  [cur_face_statistics |-> Append(f.cur_face_statistics, history),
   cur_meta_face_indices |-> Append(f.cur_meta_face_indices, meta_face_idx),
   meta_faces |-> UpdateMetaFaces(f.meta_faces, previous_face_idx, meta_face_idx,
                                  buff_position, buff_size, cur_face_idx),
   meta_face_count |-> IF previous_face_idx # -1 THEN f.meta_face_count
                       ELSE f.meta_face_count + 1,
   cur_speaker_id |-> IF verdict.active THEN cur_face_idx ELSE f.cur_speaker_id,
   speaker_mean |-> verdict.speaker_mean,
   speaker_variance |-> verdict.speaker_variance,
   verdicts |-> Append(f.verdicts, verdict)]

FaceClassified(prev, f, buff_position, buff_size, cur_face_idx, previous_face_idx, history) ==
  FaceDone(f, buff_position, buff_size, cur_face_idx, previous_face_idx, history,
           MetaFaceOf(prev.meta_face_indices, previous_face_idx, f.meta_face_count),
           IsActiveSpeaker(history, f.speaker_mean, f.speaker_variance))

FaceMatched(prev, f, buff_position, buff_size, cur_face_idx, previous_face_idx, value) ==
  FaceClassified(prev, f, buff_position, buff_size, cur_face_idx, previous_face_idx,
                 History(prev.face_statistics, previous_face_idx, value))

\* one iteration of the loop over cur_face_idx; prev holds face_bbox_, face_statistics_ and
\* meta_face_indices_, f the locals the loop carries
FaceStep(prev, input_detections, statistics, buff_position, buff_size, garbage, cur_face_idx, f) ==
  FaceMatched(prev, f, buff_position, buff_size, cur_face_idx,
              MatchFace(prev.face_bbox, input_detections[cur_face_idx + 1]),
              StatisticAt(statistics, cur_face_idx, garbage))

RECURSIVE FaceLoop(_, _, _, _, _, _, _, _)
FaceLoop(prev, input_detections, statistics, buff_position, buff_size, garbage, cur_face_idx, f) ==
  IF cur_face_idx >= Len(input_detections) THEN f
  ELSE FaceLoop(prev, input_detections, statistics, buff_position, buff_size, garbage,
                cur_face_idx + 1,
                FaceStep(prev, input_detections, statistics, buff_position, buff_size,
                         garbage, cur_face_idx, f))

\* num_of_active_speaker[meta_face]++, or insert (meta_face, 1)
CountHit(num_of_active_speaker, meta_face) ==
  IF meta_face \in DOMAIN num_of_active_speaker
  THEN [num_of_active_speaker EXCEPT ![meta_face] = @ + 1]
  ELSE [m \in DOMAIN num_of_active_speaker \cup {meta_face} |->
          IF m = meta_face THEN 1 ELSE num_of_active_speaker[m]]

\* variant of FrameDone: the best mean and variance are carried to the next frame
FrameDoneKeepsBest(s, input_detections, f) ==
  [face_bbox |-> input_detections,
   face_statistics |-> f.cur_face_statistics,
   meta_face_indices |-> f.cur_meta_face_indices,
   speaker_mean |-> f.speaker_mean,
   speaker_variance |-> f.speaker_variance,
   meta_faces |-> f.meta_faces,
   meta_face_count |-> f.meta_face_count,
   num_of_active_speaker |->
     IF f.cur_speaker_id # -1
     THEN CountHit(s.num_of_active_speaker, f.cur_meta_face_indices[f.cur_speaker_id + 1])
     ELSE s.num_of_active_speaker,
   trace |-> Append(s.trace, [evaluated |-> TRUE,
                              mean_at_start |-> s.speaker_mean,
                              variance_at_start |-> s.speaker_variance,
                              cur_speaker_id |-> f.cur_speaker_id,
                              cur_meta_face_indices |-> f.cur_meta_face_indices,
                              cur_face_statistics |-> f.cur_face_statistics,
                              verdicts |-> f.verdicts])]

\* the end of one iteration of the loop over buff_position: the hit and "Update the history"
FrameDone(s, input_detections, f) ==
  [face_bbox |-> input_detections,
   face_statistics |-> f.cur_face_statistics,
   meta_face_indices |-> f.cur_meta_face_indices,
   speaker_mean |-> Zero,
   speaker_variance |-> Zero,
   meta_faces |-> f.meta_faces,
   meta_face_count |-> f.meta_face_count,
   num_of_active_speaker |->
     IF f.cur_speaker_id # -1
     THEN CountHit(s.num_of_active_speaker, f.cur_meta_face_indices[f.cur_speaker_id + 1])
     ELSE s.num_of_active_speaker,
   trace |-> Append(s.trace, [evaluated |-> TRUE,
                              mean_at_start |-> s.speaker_mean,
                              variance_at_start |-> s.speaker_variance,
                              cur_speaker_id |-> f.cur_speaker_id,
                              cur_meta_face_indices |-> f.cur_meta_face_indices,
                              cur_face_statistics |-> f.cur_face_statistics,
                              verdicts |-> f.verdicts])]

\* variant of FrameStep: a skipped frame takes its empty detections as the last frame's
FrameStepSkipForgets(buff, width, height, garbage, buff_position, s) ==
  LET signal == buff[buff_position + 1] IN
  IF signal.landmark_lists = <<>> \/ signal.detections = <<>>
  THEN [s EXCEPT !.trace = Append(@, [evaluated |-> FALSE]), !.face_bbox = <<>>]
  ELSE FrameDone(s, signal.detections,
                 FaceLoop(s, signal.detections,
                          GetStatistics(signal.landmark_lists, width, height),
                          buff_position, Len(buff), garbage, 0,
                          [cur_face_statistics |-> <<>>, cur_meta_face_indices |-> <<>>,
                           meta_faces |-> s.meta_faces, meta_face_count |-> s.meta_face_count,
                           cur_speaker_id |-> -1, speaker_mean |-> s.speaker_mean,
                           speaker_variance |-> s.speaker_variance, verdicts |-> <<>>]))

\* one iteration of the loop over buff_position; s holds the members and locals it carries
FrameStep(buff, width, height, garbage, buff_position, s) ==
  LET signal == buff[buff_position + 1] IN
  IF signal.landmark_lists = <<>> \/ signal.detections = <<>>
  THEN [s EXCEPT !.trace = Append(@, [evaluated |-> FALSE])]
  ELSE FrameDone(s, signal.detections,
                 FaceLoop(s, signal.detections,
                          GetStatistics(signal.landmark_lists, width, height),
                          buff_position, Len(buff), garbage, 0,
                          [cur_face_statistics |-> <<>>, cur_meta_face_indices |-> <<>>,
                           meta_faces |-> s.meta_faces, meta_face_count |-> s.meta_face_count,
                           cur_speaker_id |-> -1, speaker_mean |-> s.speaker_mean,
                           speaker_variance |-> s.speaker_variance, verdicts |-> <<>>]))

RECURSIVE FrameLoop(_, _, _, _, _, _)
FrameLoop(buff, width, height, garbage, buff_position, s) ==
  IF buff_position >= Len(buff) THEN s
  ELSE FrameLoop(buff, width, height, garbage, buff_position + 1,
                 FrameStep(buff, width, height, garbage, buff_position, s))

\* variant of Beats: a later meta face with an equal count takes over
BeatsOrTies(count, max_num) == count >= max_num

\* it->second > max_num
Beats(count, max_num) == count > max_num

\* the loop over num_of_active_speaker, a std::map: ascending meta face id
RECURSIVE FindDominate(_, _, _, _, _)
FindDominate(num_of_active_speaker, id, last_id, dominate_speaker_id, max_num) ==
  IF id > last_id THEN dominate_speaker_id
  ELSE IF id \in DOMAIN num_of_active_speaker /\ Beats(num_of_active_speaker[id], max_num)
       THEN FindDominate(num_of_active_speaker, id + 1, last_id, id, num_of_active_speaker[id])
       ELSE FindDominate(num_of_active_speaker, id + 1, last_id, dominate_speaker_id, max_num)

----------------------------------------------------------------------------
(* ProcessScene, second part: the shot signal and the outputs. *)

ShotEnabled == options_.has_output_shot /\ options_.output_shot_boundary

\* variant of WithinShotSpan: the difference is compared in microseconds, without Seconds()
WithinShotSpanMicroseconds(timestamp, last_shot) ==
  FLess(Rat(timestamp - last_shot, 1), options_.min_shot_span)

\* (Timestamp(timestamp) - last_shot_timestamp_).Seconds() < options_.min_shot_span()
WithinShotSpan(timestamp, last_shot) ==
  FLess(Rat(timestamp - last_shot, kTimestampUnitsPerSecond), options_.min_shot_span)

\* variant of Transmit: sends the decision as it is handed over, without the debounce
TransmitUndebounced(is_speaker_change, timestamp, last_shot) ==
  IF is_speaker_change
  THEN <<[timestamp |-> timestamp, value |-> TRUE]>>
  ELSE IF ~options_.output_shot_boundary_only_on_change
       THEN <<[timestamp |-> timestamp, value |-> FALSE]>>
       ELSE <<>>

\* the packets Transmit adds to IS_SPEAKER_CHANGE
Transmit(is_speaker_change, timestamp, last_shot) ==
  IF ~WithinShotSpan(timestamp, last_shot) /\ is_speaker_change
  THEN <<[timestamp |-> timestamp, value |-> TRUE]>>
  ELSE IF ~options_.output_shot_boundary_only_on_change
       THEN <<[timestamp |-> timestamp, value |-> FALSE]>>
       ELSE <<>>

\* variant of FirstAppearance: the last buffered frame in which the speaker has a face
LastAppearance(dominate_speaker, i) ==
  IF \A j \in (i + 1)..Len(dominate_speaker) : dominate_speaker[j] = -1 THEN -1
  ELSE (CHOOSE j \in (i + 1)..Len(dominate_speaker) :
          /\ dominate_speaker[j] # -1
          /\ \A k \in (j + 1)..Len(dominate_speaker) : dominate_speaker[k] = -1) - 1

\* first buffered frame in which the dominate speaker has a face: its 0-based position
RECURSIVE FirstAppearance(_, _)
FirstAppearance(dominate_speaker, i) ==
  IF i >= Len(dominate_speaker) THEN -1
  ELSE IF dominate_speaker[i + 1] # -1 THEN i
  ELSE FirstAppearance(dominate_speaker, i + 1)

\* "Detetion in the closest frame": the detection dominate_speaker_detection starts with
FirstDetection(buff, dominate_speaker, first) ==
  buff[first + 1].detections[dominate_speaker[first + 1] + 1]

\* variant of IsSpeakerChange: an IOU equal to the threshold counts as the same speaker
IsSpeakerChangeStrict(previous, current) ==
  IF FGeq(GetIOU(previous, current), options_.iou_threshold) THEN FALSE ELSE TRUE

\* GetIOU(previous, current) > iou_threshold ? false : true
IsSpeakerChange(previous, current) ==
  IF FGreater(GetIOU(previous, current), options_.iou_threshold) THEN FALSE ELSE TRUE

\* what "Output the shot boundary signal" hands to Transmit: "true", "false", or "none"
\* when Transmit is not called
Decision(pre_id, pre_detection, dominate_speaker_detection) ==
  IF ~ShotEnabled THEN "none"
  ELSE IF pre_id = -1 THEN "true"
  ELSE IF pre_detection = <<>> THEN "none"
  ELSE IF IsSpeakerChange(pre_detection[1], dominate_speaker_detection) THEN "true"
  ELSE "false"

\* variant of OutputBox: indexes the frame's detections with 0 instead of face_id
OutputBoxFirstFace(detections, face_id, dominate_speaker_detection) ==
  IF face_id # -1 THEN detections[1] ELSE dominate_speaker_detection

\* the box one iteration of "Output ROI" sends and leaves in dominate_speaker_detection[0]
OutputBox(detections, face_id, dominate_speaker_detection) ==
  IF face_id # -1 THEN detections[face_id + 1] ELSE dominate_speaker_detection

\* the loop "Output ROI": one packet per buffered frame
RECURSIVE OutputROI(_, _, _, _, _)
OutputROI(buff, dominate_speaker, buff_position, dominate_speaker_detection, packets) ==
  IF buff_position >= Len(buff)
  THEN [packets |-> packets, dominate_speaker_detection |-> dominate_speaker_detection]
  ELSE LET signal == buff[buff_position + 1]
           box == OutputBox(signal.detections, dominate_speaker[buff_position + 1],
                            dominate_speaker_detection)
       IN  OutputROI(buff, dominate_speaker, buff_position + 1, box,
                     Append(packets, [timestamp |-> signal.timestamp, detections |-> <<box>>]))

EmptyROI(buff) == [i \in 1..Len(buff) |-> [timestamp |-> buff[i].timestamp, detections |-> <<>>]]

NoScene == [ran |-> FALSE]

\* the locals of a run, and the members as the run found them
Locals(buff, s, dominate_speaker_id) ==
  [ran |-> TRUE, window |-> buff,
   meta_faces |-> s.meta_faces,
   num_of_active_speaker |-> s.num_of_active_speaker,
   trace |-> s.trace,
   dominate_speaker_id |-> dominate_speaker_id,
   pre_id |-> pre_dominate_speaker_id_,
   pre_detection |-> pre_dominate_speaker_detection_,
   last_shot |-> last_shot_timestamp_,
   speaker_mean |-> s.speaker_mean, speaker_variance |-> s.speaker_variance]

\* variant of NoDominate: "Update history" leaves the previous dominate speaker in place
NoDominateKeepsHistory(buff, s) ==
  Locals(buff, s, -1) @@
  [decision |-> IF ShotEnabled THEN "false" ELSE "none",
   roi |-> EmptyROI(buff),
   shot |-> IF ShotEnabled THEN Transmit(FALSE, buff[1].timestamp, last_shot_timestamp_)
            ELSE <<>>,
   pre_dominate_speaker_id |-> pre_dominate_speaker_id_,
   pre_dominate_speaker_detection |-> pre_dominate_speaker_detection_,
   last_shot_timestamp |-> last_shot_timestamp_]

\* "No dominate speaker."
NoDominate(buff, s) ==
  Locals(buff, s, -1) @@
  [decision |-> IF ShotEnabled THEN "false" ELSE "none",
   roi |-> EmptyROI(buff),
   shot |-> IF ShotEnabled THEN Transmit(FALSE, buff[1].timestamp, last_shot_timestamp_)
            ELSE <<>>,
   pre_dominate_speaker_id |-> -1,
   pre_dominate_speaker_detection |-> <<>>,
   last_shot_timestamp |-> last_shot_timestamp_]

\* variant of DominateDone: "Update history" keeps the speaker's id without its box
DominateDoneForgetsBox(buff, s, dominate_speaker_id, dominate_speaker_detection, decision, out) ==
  Locals(buff, s, dominate_speaker_id) @@
  [decision |-> decision,
   first_detection |-> dominate_speaker_detection,
   roi |-> out.packets,
   shot |-> IF decision = "none" THEN <<>>
            ELSE Transmit(decision = "true", buff[1].timestamp, last_shot_timestamp_),
   pre_dominate_speaker_id |-> dominate_speaker_id,
   pre_dominate_speaker_detection |-> <<>>,
   last_shot_timestamp |-> IF decision = "true" THEN buff[1].timestamp
                           ELSE last_shot_timestamp_]

\* "Dominate speaker is detected.": the signal, the outputs, "Update history"
DominateDone(buff, s, dominate_speaker_id, dominate_speaker_detection, decision, out) ==
  Locals(buff, s, dominate_speaker_id) @@
  [decision |-> decision,
   first_detection |-> dominate_speaker_detection,
   roi |-> out.packets,
   shot |-> IF decision = "none" THEN <<>>
            ELSE Transmit(decision = "true", buff[1].timestamp, last_shot_timestamp_),
   pre_dominate_speaker_id |-> dominate_speaker_id,
   pre_dominate_speaker_detection |-> <<out.dominate_speaker_detection>>,
   last_shot_timestamp |-> IF decision = "true" THEN buff[1].timestamp
                           ELSE last_shot_timestamp_]

DominateFrom(buff, s, dominate_speaker_id, dominate_speaker, dominate_speaker_detection) ==
  DominateDone(buff, s, dominate_speaker_id, dominate_speaker_detection,
               Decision(pre_dominate_speaker_id_, pre_dominate_speaker_detection_,
                        dominate_speaker_detection),
               OutputROI(buff, dominate_speaker, 0, dominate_speaker_detection, <<>>))

Dominate(buff, s, dominate_speaker_id) ==
  DominateFrom(buff, s, dominate_speaker_id, s.meta_faces[dominate_speaker_id + 1],
               FirstDetection(buff, s.meta_faces[dominate_speaker_id + 1],
                              FirstAppearance(s.meta_faces[dominate_speaker_id + 1], 0)))

\* ProcessScene after its first loop
SceneEnd(buff, s, dominate_speaker_id) ==
  IF dominate_speaker_id = -1 THEN NoDominate(buff, s) ELSE Dominate(buff, s, dominate_speaker_id)

SceneFrom(buff, s) ==
  SceneEnd(buff, s, FindDominate(s.num_of_active_speaker, 0, s.meta_face_count - 1, -1, 0))

\* ProcessScene on the buffer buff: its locals, the packets it adds (roi, shot) and the
\* members it leaves
ProcessScene(buff, width, height, garbage) ==
  SceneFrom(buff, FrameLoop(buff, width, height, garbage, 0,
                            [face_bbox |-> face_bbox_, face_statistics |-> face_statistics_,
                             meta_face_indices |-> meta_face_indices_,
                             speaker_mean |-> speaker_mean_,
                             speaker_variance |-> speaker_variance_,
                             meta_faces |-> <<>>, meta_face_count |-> 0,
                             num_of_active_speaker |-> <<>>, trace |-> <<>>]))

----------------------------------------------------------------------------
(* Inputs of the model. *)

MaxSeconds == 2

\* the stream's first timestamp, and the gaps between consecutive frames
FirstTimestamps == {0, 1000000, 2000000}

Deltas == {500000, 1000000}

ModelBox(xmin, width) == [xmin |-> xmin, ymin |-> 0, width |-> width, height |-> 1]

BoxA == ModelBox(0, 4)

BoxHalfA == ModelBox(0, 2)      \* IOU with BoxA 1/2

BoxB == ModelBox(4, 4)          \* IOU with BoxA 0

\* a full face mesh whose inner lip corners are corner_dx apart and whose three
\* upper/lower lip pairs are each lip_dy apart
Mouth(corner_dx, lip_dy) ==
  [landmark_size |-> kFaceMeshLandmarks,
   landmark |-> [i \in {78, 308, 82, 13, 312, 87, 14, 317} |->
                   IF i = kLipLeftInnerCornerIdx THEN [x |-> 0, y |-> 0]
                   ELSE IF i = kLipRightInnerCornerIdx THEN [x |-> corner_dx, y |-> 0]
                   ELSE IF i \in {82, 13, 312} THEN [x |-> 1, y |-> 0]
                   ELSE [x |-> 1, y |-> lip_dy]]]

Closed == Mouth(1, 2)

Opened == Mouth(1, 6)

Mouths == {Closed, Opened}

\* an input stream's packet at one timestamp: absent (Value().IsEmpty()) or a vector
NoPacket == [present |-> FALSE]

Packet(vector) == [present |-> TRUE, vector |-> vector]

FrameSizes == {[width |-> 2, height |-> 1]}

\* the LANDMARKS and DETECTIONS packets of one step
OneFace(mouth, box) == [landmarks |-> Packet(<<mouth>>), detections |-> Packet(<<box>>)]

TwoFaces(mouth_1, mouth_2) ==
  [landmarks |-> Packet(<<mouth_1, mouth_2>>), detections |-> Packet(<<BoxA, BoxB>>)]

FrameInputs ==
  {[landmarks |-> NoPacket, detections |-> NoPacket],
   OneFace(Closed, BoxA), OneFace(Opened, BoxA),
   OneFace(Opened, BoxHalfA)}
  \cup {TwoFaces(m1, m2) : m1 \in Mouths, m2 \in Mouths}

Garbage == {Zero}

BaseOptions ==
  [min_speaker_span |-> 1000000,
   min_shot_span |-> Rat(2, 1),
   iou_threshold |-> Rat(1, 2),
   variance_history |-> 2,
   mean_history |-> 2,
   lip_mean_threshold_big_mouth |-> Rat(3, 1),
   lip_variance_threshold_big_mouth |-> Rat(1, 1),
   lip_mean_threshold_small_mouth |-> Rat(2, 1),
   lip_variance_threshold_small_mouth |-> Rat(1, 1),
   output_shot_boundary |-> TRUE,
   output_shot_boundary_only_on_change |-> FALSE,
   has_output_shot |-> TRUE]

OptionConfigs ==
  {BaseOptions,
   [BaseOptions EXCEPT !.output_shot_boundary_only_on_change = TRUE],
   [BaseOptions EXCEPT !.output_shot_boundary = FALSE]}

----------------------------------------------------------------------------
(* The calculator. *)

\* the state after the constructor and Open
Init ==
  /\ options_ \in OptionConfigs
  /\ signal_buff_ = <<>>
  /\ face_bbox_ = <<>>
  /\ face_statistics_ = <<>>
  /\ meta_face_indices_ = <<>>
  /\ speaker_mean_ = Zero
  /\ speaker_variance_ = Zero
  /\ pre_dominate_speaker_id_ = -1
  /\ pre_dominate_speaker_detection_ = <<>>
  /\ last_shot_timestamp_ = 0
  /\ frame_width_ = -1
  /\ frame_height_ = -1
  /\ state = "open"
  /\ input_timestamp = -1
  /\ call = "Open"
  /\ roi_packets = <<>>
  /\ shot_packets = <<>>
  /\ scene = NoScene
  /\ pending = <<>>
  /\ roi_in_order = TRUE
  /\ true_stamps = <<>>
  /\ first_timestamp = -1

\* the observer of DETECTIONS_SPEAKERS: each packet must answer the oldest pending frame
RECURSIVE Answer(_, _, _)
Answer(waiting, packets, i) ==
  IF i > Len(packets) THEN [pending |-> waiting, ok |-> TRUE]
  ELSE IF waiting # <<>> /\ Head(waiting) = packets[i].timestamp
       THEN Answer(Tail(waiting), packets, i + 1)
       ELSE [pending |-> waiting, ok |-> FALSE]

RECURSIVE TrueStamps(_, _)
TrueStamps(packets, i) ==
  IF i > Len(packets) THEN <<>>
  ELSE (IF packets[i].value THEN <<packets[i].timestamp>> ELSE <<>>)
       \o TrueStamps(packets, i + 1)

\* variant of RanScene: "Update history" leaves the last frame's detections in face_bbox_
RanSceneKeepsFaces(buff, width, height, garbage, waiting) ==
  /\ scene' = ProcessScene(buff, width, height, garbage)
  /\ roi_packets' = scene'.roi
  /\ shot_packets' = scene'.shot
  /\ signal_buff_' = <<>>
  /\ face_bbox_' = buff[Len(buff)].detections
  /\ face_statistics_' = <<>>
  /\ meta_face_indices_' = <<>>
  /\ speaker_mean_' = scene'.speaker_mean
  /\ speaker_variance_' = scene'.speaker_variance
  /\ pre_dominate_speaker_id_' = scene'.pre_dominate_speaker_id
  /\ last_shot_timestamp_' = scene'.last_shot_timestamp
  /\ pending' = Answer(waiting, roi_packets', 1).pending
  /\ roi_in_order' = (roi_in_order /\ Answer(waiting, roi_packets', 1).ok)
  /\ true_stamps' = true_stamps \o TrueStamps(shot_packets', 1)

\* a run of ProcessScene on buff; waiting are the frames the observer awaits
RanScene(buff, width, height, garbage, waiting) ==
  /\ scene' = ProcessScene(buff, width, height, garbage)
  /\ roi_packets' = scene'.roi
  /\ shot_packets' = scene'.shot
  /\ signal_buff_' = <<>>
  /\ face_bbox_' = <<>>
  /\ face_statistics_' = <<>>
  /\ meta_face_indices_' = <<>>
  /\ speaker_mean_' = scene'.speaker_mean
  /\ speaker_variance_' = scene'.speaker_variance
  /\ pre_dominate_speaker_id_' = scene'.pre_dominate_speaker_id
  /\ last_shot_timestamp_' = scene'.last_shot_timestamp
  /\ pending' = Answer(waiting, roi_packets', 1).pending
  /\ roi_in_order' = (roi_in_order /\ Answer(waiting, roi_packets', 1).ok)
  /\ true_stamps' = true_stamps \o TrueStamps(shot_packets', 1)

NextTimestamps ==
  IF input_timestamp = -1 THEN FirstTimestamps ELSE {input_timestamp + d : d \in Deltas}

\* the SIGNAL a Process call buffers
Signal(timestamp, in) ==
  IF in.landmarks.present /\ in.detections.present
  THEN [landmark_lists |-> in.landmarks.vector, detections |-> in.detections.vector,
        timestamp |-> timestamp]
  ELSE [landmark_lists |-> <<>>, detections |-> <<>>, timestamp |-> timestamp]

\* variant of ProcessSceneDue: the window must span more than min_speaker_span
ProcessSceneDueStrict(buff, timestamp) ==
  buff # <<>> /\ timestamp - buff[1].timestamp > options_.min_speaker_span

\* signal_buff_ non-empty and spanning min_speaker_span
ProcessSceneDue(buff, timestamp) ==
  buff # <<>> /\ timestamp - buff[1].timestamp >= options_.min_speaker_span

\* Process with a VIDEO packet
Process(timestamp, size, in, garbage) ==
  LET buff == Append(signal_buff_, Signal(timestamp, in))
      width == IF frame_width_ < 0 THEN size.width ELSE frame_width_
      height == IF frame_width_ < 0 THEN size.height ELSE frame_height_
  IN
  /\ state = "open"
  /\ input_timestamp' = timestamp
  /\ frame_width_' = width
  /\ frame_height_' = height
  /\ call' = "Process"
  /\ IF ProcessSceneDue(buff, timestamp)
     THEN /\ RanScene(buff, width, height, garbage, Append(pending, timestamp))
          /\ pre_dominate_speaker_detection_' = scene'.pre_dominate_speaker_detection
     ELSE /\ signal_buff_' = buff
          /\ pending' = Append(pending, timestamp)
          /\ roi_packets' = <<>>
          /\ shot_packets' = <<>>
          /\ scene' = NoScene
          /\ UNCHANGED <<face_bbox_, face_statistics_, meta_face_indices_, speaker_mean_,
                         speaker_variance_, pre_dominate_speaker_id_,
                         pre_dominate_speaker_detection_, last_shot_timestamp_,
                         roi_in_order, true_stamps>>
  /\ first_timestamp' = (IF first_timestamp = -1 THEN timestamp ELSE first_timestamp)
  /\ UNCHANGED <<options_, state>>

\* variant of ProcessNoVideo: the frame is buffered before the VIDEO packet is tested
ProcessNoVideoBuffers(timestamp) ==
  /\ state = "open"
  /\ input_timestamp' = timestamp
  /\ call' = "ProcessError"
  /\ signal_buff_' = Append(signal_buff_, [landmark_lists |-> <<>>, detections |-> <<>>,
                                           timestamp |-> timestamp])
  /\ roi_packets' = <<>>
  /\ shot_packets' = <<>>
  /\ scene' = NoScene
  /\ UNCHANGED <<options_, face_bbox_, face_statistics_, meta_face_indices_,
                 speaker_mean_, speaker_variance_, pre_dominate_speaker_id_,
                 pre_dominate_speaker_detection_, last_shot_timestamp_, frame_width_,
                 frame_height_, state, pending, roi_in_order, true_stamps>>
  /\ first_timestamp' = (IF first_timestamp = -1 THEN timestamp ELSE first_timestamp)

\* Process without a VIDEO packet: the error return
ProcessNoVideo(timestamp) ==
  /\ state = "open"
  /\ input_timestamp' = timestamp
  /\ call' = "ProcessError"
  /\ roi_packets' = <<>>
  /\ shot_packets' = <<>>
  /\ scene' = NoScene
  /\ UNCHANGED <<options_, signal_buff_, face_bbox_, face_statistics_, meta_face_indices_,
                 speaker_mean_, speaker_variance_, pre_dominate_speaker_id_,
                 pre_dominate_speaker_detection_, last_shot_timestamp_, frame_width_,
                 frame_height_, state, pending, roi_in_order, true_stamps>>
  /\ first_timestamp' = (IF first_timestamp = -1 THEN timestamp ELSE first_timestamp)

\* variant of Close: returns without running ProcessScene on what is buffered
CloseWithoutFlush(garbage) ==
  /\ state = "open"
  /\ state' = "closed"
  /\ call' = "Close"
  /\ roi_packets' = <<>>
  /\ shot_packets' = <<>>
  /\ scene' = NoScene
  /\ face_statistics_' = <<>>
  /\ meta_face_indices_' = <<>>
  /\ pre_dominate_speaker_detection_' = <<>>
  /\ UNCHANGED <<options_, signal_buff_, face_bbox_, speaker_mean_, speaker_variance_,
                 pre_dominate_speaker_id_, last_shot_timestamp_, frame_width_,
                 frame_height_, input_timestamp, pending, roi_in_order, true_stamps,
                 first_timestamp>>

\* Close: flush what is buffered, then clear
Close(garbage) ==
  /\ state = "open"
  /\ state' = "closed"
  /\ call' = "Close"
  /\ IF signal_buff_ # <<>>
     THEN RanScene(signal_buff_, frame_width_, frame_height_, garbage, pending)
     ELSE /\ roi_packets' = <<>>
          /\ shot_packets' = <<>>
          /\ scene' = NoScene
          /\ face_statistics_' = <<>>
          /\ meta_face_indices_' = <<>>
          /\ UNCHANGED <<signal_buff_, face_bbox_, speaker_mean_, speaker_variance_,
                         pre_dominate_speaker_id_, last_shot_timestamp_, pending,
                         roi_in_order, true_stamps>>
  /\ pre_dominate_speaker_detection_' = <<>>
  /\ UNCHANGED <<options_, input_timestamp, frame_width_, frame_height_, first_timestamp>>

\* the model follows a stream for MaxSeconds from its first frame
InTime(timestamp) ==
  first_timestamp = -1 \/ timestamp <= first_timestamp + MaxSeconds * kTimestampUnitsPerSecond

Next ==
  \/ \E timestamp \in NextTimestamps, size \in FrameSizes, in \in FrameInputs, garbage \in Garbage :
       InTime(timestamp) /\ Process(timestamp, size, in, garbage)
  \/ \E timestamp \in NextTimestamps : InTime(timestamp) /\ ProcessNoVideo(timestamp)
  \/ \E garbage \in Garbage : Close(garbage)

Spec == Init /\ [][Next]_vars

----------------------------------------------------------------------------
(* The helpers of ProcessScene called one at a time on an opened calculator, *)
(* over a wider range of options and inputs than the streams above; and a    *)
(* one-frame stream, Process then Close, over frames whose landmark lists    *)
(* and detections do not line up.                                            *)

MaxHistory == 4

\* lip statistics and the histories made of them
Statistics == {Rat(1, 1), Rat(3, 1), Rat(5, 1)}

RECURSIVE HistoriesOf(_)
HistoriesOf(size) ==
  IF size = 0 THEN {<<>>}
  ELSE {Append(history, value) : history \in HistoriesOf(size - 1), value \in Statistics}

Histories == UNION {HistoriesOf(size) : size \in 0..MaxHistory}

\* values of speaker_mean_ and speaker_variance_ a call may find
Bests == {Zero, Rat(2, 1), Rat(4, 1)}

CallOptionConfigs ==
  {[BaseOptions EXCEPT !.variance_history = variance_history, !.mean_history = mean_history] :
     variance_history \in 0..MaxHistory, mean_history \in 1..MaxHistory}
  \cup {[BaseOptions EXCEPT !.iou_threshold = Zero]}

\* a landmark list shorter than the face mesh
Short == [Closed EXCEPT !.landmark_size = kFaceMeshLandmarks - 1]

Wide == Mouth(2, 6)

LandmarkLists ==
  {<<>>} \cup {<<l>> : l \in {Closed, Opened, Wide, Short}}
         \cup {<<l1, l2>> : l1 \in {Closed, Opened, Short}, l2 \in {Closed, Opened, Wide}}

\* face_bbox_ as a frame may leave it, and the detections matched against it
BoxNearA == ModelBox(1, 4)      \* IOU with BoxA 3/5

\* a detection of zero area
FlatBox == ModelBox(0, 0)

PreviousFaces ==
  {<<>>, <<BoxA>>, <<BoxB, BoxA>>, <<BoxHalfA, BoxA>>, <<BoxHalfA, BoxNearA>>,
   <<BoxNearA, ModelBox(-1, 4)>>, <<BoxA, BoxA>>, <<FlatBox>>, <<FlatBox, BoxA>>}

CurrentFaces == {BoxA, BoxHalfA, BoxB, FlatBox}

\* the largest width and height of a box of the grid
MaxSide == 2

\* relative bounding boxes with corners on a grid, zero-area ones included
GridBoxes ==
  {[xmin |-> xmin, ymin |-> ymin, width |-> width, height |-> height] :
     xmin \in 0..1, ymin \in 0..1, width \in 0..MaxSide, height \in 0..MaxSide}

\* frames of the one-frame stream
\* a mouth opened further than Opened
Gaping == Mouth(1, 10)

CallFrames ==
  {[landmarks |-> Packet(lists), detections |-> Packet(boxes)] :
     lists \in {<<Closed, Opened>>, <<Short, Opened>>, <<Opened>>, <<Gaping, Opened>>},
     boxes \in {<<BoxA>>, <<BoxA, BoxB>>}}

\* second frames of the stream: two detections that both overlap BoxA, or two apart
CallSecondFrames ==
  {[landmarks |-> Packet(<<mouth_1, mouth_2>>), detections |-> Packet(<<BoxA, BoxHalfA>>)] :
     mouth_1 \in Mouths, mouth_2 \in Mouths}
  \cup {TwoFaces(Opened, Closed)}

\* the timestamp of the second frame, less than min_speaker_span after the first
CallSecondTimestamp == 500000

CallGarbage == {Zero, Rat(5, 1)}

InitCalls ==
  /\ options_ \in CallOptionConfigs
  /\ signal_buff_ = <<>>
  /\ face_bbox_ = <<>>
  /\ face_statistics_ = <<>>
  /\ meta_face_indices_ = <<>>
  /\ speaker_mean_ = Zero
  /\ speaker_variance_ = Zero
  /\ pre_dominate_speaker_id_ = -1
  /\ pre_dominate_speaker_detection_ = <<>>
  /\ last_shot_timestamp_ = 0
  /\ frame_width_ = -1
  /\ frame_height_ = -1
  /\ state = "open"
  /\ input_timestamp = -1
  /\ call = "Open"
  /\ roi_packets = <<>>
  /\ shot_packets = <<>>
  /\ scene = NoScene
  /\ pending = <<>>
  /\ roi_in_order = TRUE
  /\ true_stamps = <<>>
  /\ first_timestamp = -1

\* what a helper call leaves alone
HelperUnchanged ==
  UNCHANGED <<options_, signal_buff_, face_bbox_, face_statistics_, meta_face_indices_,
              pre_dominate_speaker_id_, pre_dominate_speaker_detection_,
              last_shot_timestamp_, frame_width_, frame_height_, state, input_timestamp,
              roi_packets, shot_packets, pending, roi_in_order, true_stamps,
              first_timestamp>>

\* lines 274-295 for one face: matched to a previous face with history previous, or not
CallHistory(previous, matched, value) ==
  /\ call = "Open"
  /\ call' = "History"
  /\ scene' = [ran |-> FALSE, previous |-> previous, matched |-> matched, value |-> value,
               result |-> History(<<previous>>, IF matched THEN 0 ELSE -1, value)]
  /\ UNCHANGED <<speaker_mean_, speaker_variance_>>
  /\ HelperUnchanged

\* IsActiveSpeaker with speaker_mean_ and speaker_variance_ as an earlier face left them
CallIsActiveSpeaker(face_lip_statistics, mean_before, variance_before) ==
  /\ call = "Open"
  /\ call' = "IsActiveSpeaker"
  /\ scene' = [ran |-> FALSE, face_lip_statistics |-> face_lip_statistics,
               mean_before |-> mean_before, variance_before |-> variance_before,
               result |-> IsActiveSpeaker(face_lip_statistics, mean_before, variance_before)]
  /\ speaker_mean_' = scene'.result.speaker_mean
  /\ speaker_variance_' = scene'.result.speaker_variance
  /\ HelperUnchanged

\* MatchFace with face_bbox_ as an earlier frame left it
CallMatchFace(prev_bbox, face_bbox) ==
  /\ call = "Open"
  /\ call' = "MatchFace"
  /\ scene' = [ran |-> FALSE, prev_bbox |-> prev_bbox, face_bbox |-> face_bbox,
               result |-> MatchFace(prev_bbox, face_bbox)]
  /\ UNCHANGED <<speaker_mean_, speaker_variance_>>
  /\ HelperUnchanged

CallGetIOU(bbox_1, bbox_2) ==
  /\ call = "Open"
  /\ call' = "GetIOU"
  /\ scene' = [ran |-> FALSE, bbox_1 |-> bbox_1, bbox_2 |-> bbox_2,
               result |-> GetIOU(bbox_1, bbox_2)]
  /\ UNCHANGED <<speaker_mean_, speaker_variance_>>
  /\ HelperUnchanged

CallGetStatistics(landmark_lists, size) ==
  /\ call = "Open"
  /\ call' = "GetStatistics"
  /\ scene' = [ran |-> FALSE, landmark_lists |-> landmark_lists, size |-> size,
               result |-> GetStatistics(landmark_lists, size.width, size.height)]
  /\ UNCHANGED <<speaker_mean_, speaker_variance_>>
  /\ HelperUnchanged

NextCalls ==
  \/ \E previous \in Histories, matched \in BOOLEAN, value \in Statistics :
       CallHistory(previous, matched, value)
  \/ \E face_lip_statistics \in Histories, mean_before \in Bests, variance_before \in Bests :
       CallIsActiveSpeaker(face_lip_statistics, mean_before, variance_before)
  \/ \E prev_bbox \in PreviousFaces, face_bbox \in CurrentFaces :
       CallMatchFace(prev_bbox, face_bbox)
  \/ \E bbox_1 \in GridBoxes, bbox_2 \in GridBoxes : CallGetIOU(bbox_1, bbox_2)
  \/ \E landmark_lists \in LandmarkLists, size \in FrameSizes :
       CallGetStatistics(landmark_lists, size)
  \/ \E size \in FrameSizes, in \in CallFrames, garbage \in CallGarbage :
       call = "Open" /\ Process(0, size, in, garbage)
  \/ \E size \in FrameSizes, in \in CallSecondFrames, garbage \in CallGarbage :
       /\ call = "Process"
       /\ input_timestamp = 0
       /\ Process(CallSecondTimestamp, size, in, garbage)
  \/ \E garbage \in CallGarbage : call = "Process" /\ Close(garbage)

SpecCalls == InitCalls /\ [][NextCalls]_vars

----------------------------------------------------------------------------
(* Properties.  They read the outputs and the recorded run of ProcessScene   *)
(* (scene), and restate timing, overlap and hit counts from the inputs.      *)

\* to is at least min_shot_span after from (microseconds against seconds)
SpanElapsed(from, to) ==
  (to - from) * options_.min_shot_span.d
    >= options_.min_shot_span.n * kTimestampUnitsPerSecond

\* a <= b on two floats that are numbers
AtMost(a, b) == ~IsNaN(a) /\ ~IsNaN(b) /\ a.n * b.d <= b.n * a.d

ShotPacket(timestamp, value) == [timestamp |-> timestamp, value |-> value]

SentTrue == \E i \in 1..Len(shot_packets) : shot_packets[i].value

\* the last run found a dominate speaker / found none
HasDominate == scene.ran /\ scene.dominate_speaker_id # -1

HasNoDominate == scene.ran /\ scene.dominate_speaker_id = -1

FirstStamp == scene.window[1].timestamp

\* per buffered frame, the face index of the dominate meta face (-1: absent)
DominateSlots == scene.meta_faces[scene.dominate_speaker_id + 1]

BoxIn(i) == scene.window[i].detections[DominateSlots[i] + 1]

\* frames of the window in which the dominate meta face appears
Appearances == {i \in 1..Len(scene.window) : DominateSlots[i] # -1}

Earliest == CHOOSE i \in Appearances : \A j \in Appearances : i <= j

EarlierAppearances(i) == {j \in Appearances : j < i}

MostRecentBefore(i) ==
  CHOOSE j \in EarlierAppearances(i) : \A k \in EarlierAppearances(i) : k <= j

\* the number of evaluated frames whose speaker is meta face m
Hits(m) ==
  Cardinality({i \in 1..Len(scene.trace) :
                 /\ scene.trace[i].evaluated
                 /\ scene.trace[i].cur_speaker_id # -1
                 /\ scene.trace[i].cur_meta_face_indices[scene.trace[i].cur_speaker_id + 1] = m})

MetaFaceIds == 0..(Len(scene.meta_faces) - 1)

\* C1: no two true shot signals are ever emitted at timestamps less than
\* min_shot_span apart, over any run of Process calls and Close.
C1_DebounceSafety ==
  \A i, j \in 1..Len(true_stamps) :
    i < j => SpanElapsed(true_stamps[i], true_stamps[j])

\* a change decision at Close is held back after a true was emitted earlier
C1_Witness ==
  /\ call = "Close"
  /\ scene.ran
  /\ scene.decision = "true"
  /\ true_stamps # <<>>
  /\ ~SentTrue
  /\ ~SpanElapsed(true_stamps[Len(true_stamps)], FirstStamp)

LastEmitted == IF true_stamps = <<>> THEN 0 ELSE true_stamps[Len(true_stamps)]

\* C2 (as stated): last_shot_timestamp_ is the timestamp of the last emitted true
\* (it changes only when a true is emitted), so a change decision at least
\* min_shot_span after the last emitted true is emitted as true.
C2_ReferenceIsLastEmitted ==
  /\ last_shot_timestamp_ = LastEmitted
  /\ (scene.ran /\ scene.decision = "true" /\ ~SentTrue)
       => ~SpanElapsed(LastEmitted, FirstStamp)

NewSpeaker == HasDominate /\ scene.pre_id = -1 /\ ShotEnabled

BothDominate == HasDominate /\ scene.pre_id # -1 /\ ShotEnabled

\* C4: with a dominate speaker in this window and in the previous one, the
\* change decision is true exactly when the IOU of the previous speaker's last
\* known box and this speaker's earliest box in the window is <= iou_threshold,
\* whatever the meta face ids; the last known box is the last box output.
C4_ChangeIffLowIOU ==
  /\ BothDominate =>
       scene.decision =
         IF AtMost(GetIOU(scene.pre_detection[1], BoxIn(Earliest)), options_.iou_threshold)
         THEN "true" ELSE "false"
  /\ (HasDominate /\ call = "Process") =>
       pre_dominate_speaker_detection_ = roi_packets[Len(roi_packets)].detections

\* the two boxes overlap by exactly iou_threshold
C4_Witness ==
  /\ BothDominate
  /\ GetIOU(scene.pre_detection[1], BoxIn(Earliest)) = options_.iou_threshold
  /\ scene.decision = "true"

\* C5: a window without dominate speaker outputs an empty detection list for
\* every buffered frame, emits false at its first frame's timestamp when the
\* shot output is enabled and not only-on-change, and clears the previous
\* dominate speaker (id and box); a dominate speaker found with that state
\* cleared is a change whatever its box.
C5_NoDominateWindow ==
  /\ HasNoDominate =>
       /\ Len(roi_packets) = Len(scene.window)
       /\ \A i \in 1..Len(roi_packets) :
            roi_packets[i] = [timestamp |-> scene.window[i].timestamp, detections |-> <<>>]
       /\ (ShotEnabled /\ ~options_.output_shot_boundary_only_on_change)
            => shot_packets = <<ShotPacket(FirstStamp, FALSE)>>
       /\ pre_dominate_speaker_id_ = -1
       /\ pre_dominate_speaker_detection_ = <<>>
  /\ NewSpeaker => scene.decision = "true"

\* a window with faces but no dominate speaker follows one that had a speaker
C5_Witness ==
  /\ HasNoDominate
  /\ scene.pre_id # -1
  /\ \E i \in 1..Len(scene.window) : scene.window[i].detections # <<>>
  /\ shot_packets = <<ShotPacket(FirstStamp, FALSE)>>

\* C6: every frame Process accepts gets exactly one DETECTIONS_SPEAKERS packet
\* with its own timestamp, in timestamp order; the frames still awaiting theirs
\* are the buffered ones; after Close none awaits; Close on an empty buffer
\* outputs nothing.
C6_EveryFrameAnswered ==
  /\ roi_in_order
  /\ pending = [i \in 1..Len(signal_buff_) |-> signal_buff_[i].timestamp]
  /\ state = "closed" => pending = <<>>
  /\ (call = "Close" /\ ~scene.ran) => (roi_packets = <<>> /\ shot_packets = <<>>)

\* Close evaluates a window that does not yet span min_speaker_span
C6_Witness ==
  /\ call = "Close"
  /\ scene.ran
  /\ Len(roi_packets) >= 2
  /\ scene.window[Len(scene.window)].timestamp - FirstStamp < options_.min_speaker_span

C8_OneBoxPerFrame ==
  HasDominate =>
    /\ Len(roi_packets) = Len(scene.window)
    /\ \A i \in 1..Len(roi_packets) :
         /\ roi_packets[i].timestamp = scene.window[i].timestamp
         /\ Len(roi_packets[i].detections) = 1
         /\ i \in Appearances => roi_packets[i].detections[1] = BoxIn(i)

\* the window has a frame without detections, and the speaker is the second face
\* of another
C8_Witness ==
  /\ HasDominate
  /\ \E i \in 1..Len(scene.window) : scene.window[i].detections = <<>>
  /\ \E i \in Appearances : DominateSlots[i] = 1

Absent == (1..Len(scene.window)) \ Appearances

\* C9 (as stated): a frame without the dominate speaker outputs the speaker's
\* box of the most recent earlier frame in which it appeared, never one of a
\* later frame of the window: before the first appearance in the window the box
\* can only be the one known from before the window.
C9_CarriedFromEarlier ==
  HasDominate =>
    \A i \in Absent :
      IF EarlierAppearances(i) # {}
      THEN roi_packets[i].detections = <<BoxIn(MostRecentBefore(i))>>
      ELSE /\ scene.pre_detection # <<>>
           /\ roi_packets[i].detections = scene.pre_detection

\* C9 (amended): a frame without the dominate speaker outputs the speaker's box
\* of the most recent earlier frame of the window in which it appeared; a frame
\* before the first appearance in the window outputs the box of that first
\* appearance, a later frame.
C9_CarriedOrFirstAppearance ==
  HasDominate =>
    \A i \in Absent :
      roi_packets[i].detections =
        IF EarlierAppearances(i) # {} THEN <<BoxIn(MostRecentBefore(i))>>
        ELSE <<BoxIn(Earliest)>>

\* the speaker is absent from the first frame and its box changes afterwards
C9_Witness ==
  /\ HasDominate
  /\ 1 \in Absent
  /\ \E i \in Appearances : BoxIn(i) # BoxIn(Earliest)

\* C10: the dominate speaker is the meta face with the most hits, the lowest
\* id among those with the most; without any hit there is none.
C10_DominateSelection ==
  scene.ran =>
    IF \A m \in MetaFaceIds : Hits(m) = 0
    THEN scene.dominate_speaker_id = -1
    ELSE /\ scene.dominate_speaker_id \in MetaFaceIds
         /\ \A m \in MetaFaceIds :
              /\ Hits(m) <= Hits(scene.dominate_speaker_id)
              /\ Hits(m) = Hits(scene.dominate_speaker_id)
                   => scene.dominate_speaker_id <= m

\* two meta faces share the highest count
C10_Witness ==
  /\ HasDominate
  /\ \E m \in MetaFaceIds :
       m # scene.dominate_speaker_id /\ Hits(m) = Hits(scene.dominate_speaker_id)

\* the members that buffer, track and decide
members == <<signal_buff_, face_bbox_, face_statistics_, meta_face_indices_, speaker_mean_,
             speaker_variance_, pre_dominate_speaker_id_, pre_dominate_speaker_detection_,
             last_shot_timestamp_, frame_width_, frame_height_>>

\* C11: a Process call without VIDEO packet returns an error, adds no packet to
\* any output stream, runs no window evaluation and leaves the buffer and all
\* tracking and decision members unchanged.
C11_NoVideoNoEffect ==
  [][call' = "ProcessError" =>
       /\ roi_packets' = <<>>
       /\ shot_packets' = <<>>
       /\ ~scene'.ran
       /\ members' = members]_vars

\* the call came while frames were buffered and a speaker was known
C11_Witness ==
  /\ call = "ProcessError"
  /\ signal_buff_ # <<>>
  /\ pre_dominate_speaker_id_ # -1

\* the last count values of a history, in their order
LastValues(history, count) ==
  SubSeq(history, Len(history) - Min(Len(history), count) + 1, Len(history))

\* the history a face should get: the previous one with the value appended, cut
\* from the front to variance_history; a single value for an unmatched face
RolledHistory ==
  IF scene.matched
  THEN LastValues(Append(scene.previous, scene.value), options_.variance_history)
  ELSE <<scene.value>>

\* C12 (as stated): the history of every face has length <= variance_history;
\* appending to a full history drops exactly the oldest value and keeps the
\* order of the rest; an unmatched face starts a history of one value.
C12_HistoryBounded ==
  call = "History" =>
    /\ Len(scene.result) <= options_.variance_history
    /\ scene.result = RolledHistory

\* C12 (amended): that holds for variance_history >= 1.  The history started for
\* an unmatched face is the one value, untrimmed, so with variance_history = 0
\* it has length 1; a matched face's history is then empty.
C12_HistoryBoundedFromOne ==
  call = "History" =>
    /\ scene.result = RolledHistory
    /\ (options_.variance_history >= 1 \/ scene.matched)
         => Len(scene.result) <= options_.variance_history
    /\ (options_.variance_history = 0 /\ ~scene.matched) => Len(scene.result) = 1

\* a value is appended to a full history of distinct values
C12_Witness ==
  /\ call = "History"
  /\ scene.matched
  /\ Len(scene.previous) = options_.variance_history
  /\ scene.previous = <<Rat(1, 1), Rat(3, 1), Rat(5, 1)>>
  /\ scene.result = <<Rat(3, 1), Rat(5, 1), scene.value>>

\* C13: on a history of length <= variance_history / 2 (integer division) the
\* classifier returns not-speaking whatever the values and leaves speaker_mean_
\* and speaker_variance_ unchanged.
C13_ShortHistoryNotSpeaking ==
  (call = "IsActiveSpeaker" /\ 2 * Len(scene.face_lip_statistics) <= options_.variance_history)
    => /\ ~scene.result.active
       /\ speaker_mean_ = scene.mean_before
       /\ speaker_variance_ = scene.variance_before

\* a history of two values that differ, at the limit variance_history / 2
C13_Witness ==
  /\ call = "IsActiveSpeaker"
  /\ Len(scene.face_lip_statistics) = 2
  /\ options_.variance_history \in {4, 5}
  /\ scene.face_lip_statistics[1] # scene.face_lip_statistics[2]
  /\ scene.face_lip_statistics[2] = Rat(5, 1)
  /\ scene.mean_before = Zero
  /\ ~scene.result.active

\* frames of the window the first loop evaluated (landmarks and detections non-empty)
EvaluatedFrames == {i \in 1..Len(scene.trace) : scene.trace[i].evaluated}

\* j is the evaluated frame that follows the evaluated frame i
NextEvaluated(i, j) == i < j /\ \A k \in EvaluatedFrames : ~(i < k /\ k < j)

\* C14: when consecutive evaluated frames of a window present the same
\* detection boxes, with or without skipped frames in between, each face keeps
\* its meta face id; if all evaluated frames present the same boxes, no meta
\* face id is minted after the first of them.
C14_SameBoxesSameMetaFace ==
  scene.ran =>
    /\ \A i, j \in EvaluatedFrames :
         (NextEvaluated(i, j) /\ scene.window[i].detections = scene.window[j].detections)
           => scene.trace[j].cur_meta_face_indices = scene.trace[i].cur_meta_face_indices
    /\ \A i \in EvaluatedFrames :
         (\A j \in EvaluatedFrames : scene.window[j].detections = scene.window[i].detections)
           => Len(scene.meta_faces) = Len(scene.window[i].detections)

\* two faces, a skipped frame, the same two faces
C14_Witness ==
  /\ scene.ran
  /\ Len(scene.window) = 3
  /\ EvaluatedFrames = {1, 3}
  /\ Len(scene.window[1].detections) = 2
  /\ scene.window[1].detections = scene.window[3].detections
  /\ scene.trace[3].cur_meta_face_indices = <<0, 1>>

\* the IOU of the matched detection with previous detection i (1-based)
OverlapWith(i) == GetIOU(scene.prev_bbox[i], scene.face_bbox)

\* the previous detections whose IOU with the matched detection is a number
Overlapping == {i \in 1..Len(scene.prev_bbox) : ~IsNaN(OverlapWith(i))}

\* the first previous detection among those with the largest IOU (1-based)
FirstLargest ==
  CHOOSE i \in Overlapping :
    /\ \A j \in Overlapping : AtMost(OverlapWith(j), OverlapWith(i))
    /\ \A j \in Overlapping : j < i => OverlapWith(j) # OverlapWith(i)

\* C15 (as stated): MatchFace returns the index of the previous detection with
\* the largest IOU only if that IOU is above iou_threshold, -1 otherwise, also
\* when it equals iou_threshold; of several with the largest IOU, the first.
C15_MatchAboveThreshold ==
  call = "MatchFace" =>
    scene.result =
      IF Overlapping # {}
         /\ ~AtMost(OverlapWith(FirstLargest), options_.iou_threshold)
      THEN FirstLargest - 1 ELSE -1

\* C15 (amended): MatchFace returns the index of the previous detection with the
\* largest IOU if that IOU is at least iou_threshold (a largest IOU equal to
\* iou_threshold is a match) and above 0, -1 otherwise; of several with the
\* largest IOU, the first.
C15_MatchFromThreshold ==
  call = "MatchFace" =>
    scene.result =
      IF Overlapping # {}
         /\ AtMost(options_.iou_threshold, OverlapWith(FirstLargest))
         /\ ~AtMost(OverlapWith(FirstLargest), Zero)
      THEN FirstLargest - 1 ELSE -1

\* the largest IOU equals iou_threshold, and it is not the first previous detection's
C15_Witness ==
  /\ call = "MatchFace"
  /\ Len(scene.prev_bbox) = 2
  /\ OverlapWith(2) = options_.iou_threshold
  /\ scene.result = 1

\* a landmark list long enough for GetStatistics to use
FullMesh(landmark_list) == landmark_list.landmark_size >= kFaceMeshLandmarks

\* distance of two landmarks of one list, in pixels
LipDistance(landmark_list, a, b, size) ==
  GetDistance(landmark_list.landmark[a], landmark_list.landmark[b], size.width, size.height)

\* the mouth aspect ratio of one face from its own landmarks: the average of the
\* three upper/lower distances over the inner-corner width
OwnRatio(landmark_list, size) ==
  Rat(LipDistance(landmark_list, 82, 87, size) + LipDistance(landmark_list, 13, 14, size)
        + LipDistance(landmark_list, 312, 317, size),
      3 * LipDistance(landmark_list, 78, 308, size))

OwnRatios(landmark_lists, size) ==
  LET kept == SelectSeq(landmark_lists, FullMesh)
  IN  [i \in 1..Len(kept) |-> OwnRatio(kept[i], size)]

\* C17 (as stated): for every face of a frame, the second and later ones too,
\* the ratio GetStatistics produces is the average of that face's three lip pair
\* distances over that face's mouth width, whatever faces came before it.
C17_RatioOfOwnLandmarks ==
  call = "GetStatistics" =>
    scene.result = OwnRatios(scene.landmark_lists, scene.size)

\* the lists among the first count of a frame that GetStatistics does not skip
KeptAmong(landmark_lists, count) == SelectSeq(SubSeq(landmark_lists, 1, count), FullMesh)

\* what GetStatistics computed from landmark list i (1-based) of frame k
StatisticOfList(k, i) ==
  GetStatistics(scene.window[k].landmark_lists, frame_width_, frame_height_)
    [Len(KeptAmong(scene.window[k].landmark_lists, i))]

\* C16 (as stated): in every evaluated frame, short landmark lists or unequal
\* numbers of detections and landmark lists included, the statistic appended to
\* the history of face i is the one computed from landmark list i, and the
\* statistics are never indexed past their end.
C16_StatisticsAligned ==
  scene.ran =>
    \A k \in EvaluatedFrames :
      /\ Len(scene.window[k].detections)
           <= Len(KeptAmong(scene.window[k].landmark_lists,
                            Len(scene.window[k].landmark_lists)))
      /\ \A i \in 1..Len(scene.window[k].detections) :
           /\ i <= Len(scene.window[k].landmark_lists)
           /\ FullMesh(scene.window[k].landmark_lists[i])
           /\ scene.trace[k].cur_face_statistics[i]
                [Len(scene.trace[k].cur_face_statistics[i])] = StatisticOfList(k, i)

\* sums over a history of whole-number statistics
RECURSIVE SumOf(_)
SumOf(history) == IF history = <<>> THEN 0 ELSE Head(history).n + SumOf(Tail(history))

RECURSIVE SumOfSquares(_)
SumOfSquares(history) ==
  IF history = <<>> THEN 0 ELSE Head(history).n * Head(history).n + SumOfSquares(Tail(history))

\* population variance: (N * sum of squares - square of sum) / N^2
PopulationVariance(history) ==
  Rat(Len(history) * SumOfSquares(history) - SumOf(history) * SumOf(history),
      Len(history) * Len(history))

AverageOfLast(history, count) == Rat(SumOf(LastValues(history, count)), count)

Above(a, b) == ~AtMost(a, b)

\* the two activation criteria on a short mean and a variance
Criteria(mean_short, variance) ==
  \/ /\ AtMost(options_.lip_mean_threshold_big_mouth, mean_short)
     /\ AtMost(options_.lip_variance_threshold_big_mouth, variance)
     /\ Above(mean_short, scene.mean_before)
  \/ /\ AtMost(options_.lip_mean_threshold_small_mouth, mean_short)
     /\ AtMost(options_.lip_variance_threshold_small_mouth, variance)
     /\ Above(variance, scene.variance_before)

\* the classifier's answer and writes are those of the criteria on mean_short
DecidesBy(mean_short) ==
  LET variance == PopulationVariance(scene.face_lip_statistics) IN
  /\ scene.result.active = Criteria(mean_short, variance)
  /\ speaker_mean_ = IF scene.result.active THEN mean_short ELSE scene.mean_before
  /\ speaker_variance_ = IF scene.result.active THEN variance ELSE scene.variance_before

LongEnough ==
  call = "IsActiveSpeaker" /\ 2 * Len(scene.face_lip_statistics) > options_.variance_history

\* the value a history consists of, if it is a single one
SingleValues(history) ==
  {value \in {history[i] : i \in 1..Len(history)} :
     \A i \in 1..Len(history) : history[i] = value}

\* C18 (as stated): for a history longer than variance_history / 2 the
\* classifier answers by the two criteria on the population variance and on
\* mean_short, the average of the last mean_history values, or the single value
\* of the history when it has fewer than mean_history; it sets the bests to
\* mean_short and variance on true and leaves them on false.
C18_MeanOfLastOrSingle ==
  LongEnough =>
    IF Len(scene.face_lip_statistics) >= options_.mean_history
    THEN DecidesBy(AverageOfLast(scene.face_lip_statistics, options_.mean_history))
    ELSE \E value \in SingleValues(scene.face_lip_statistics) : DecidesBy(value)

\* C18 (amended): the same, with mean_short the first (oldest) value of the
\* history when it has fewer than mean_history values.
C18_MeanOfLastOrOldest ==
  LongEnough =>
    DecidesBy(IF Len(scene.face_lip_statistics) >= options_.mean_history
              THEN AverageOfLast(scene.face_lip_statistics, options_.mean_history)
              ELSE scene.face_lip_statistics[1])

\* a history of two different values, shorter than mean_history, found speaking
C18_Witness ==
  /\ LongEnough
  /\ Len(scene.face_lip_statistics) = 2
  /\ options_.mean_history > 2
  /\ scene.face_lip_statistics[1] # scene.face_lip_statistics[2]
  /\ scene.result.active
  /\ speaker_mean_ = scene.face_lip_statistics[1]

\* the faces of evaluated frame i, by 1-based position, found speaking
Speaking(i) ==
  {k \in 1..Len(scene.trace[i].verdicts) : scene.trace[i].verdicts[k].active}

LastOf(positions) == CHOOSE k \in positions : \A other \in positions : other <= k

RECURSIVE SumOfHits(_, _)
SumOfHits(num_of_active_speaker, ids) ==
  IF ids = {} THEN 0
  ELSE LET id == CHOOSE m \in ids : TRUE IN
       num_of_active_speaker[id] + SumOfHits(num_of_active_speaker, ids \ {id})

\* C19: the candidate speaker of an evaluated frame is the last face, in
\* detection order, that the classifier found speaking (none if there is no
\* such face); the hit count of a meta face is the number of evaluated frames
\* whose candidate it is, so a frame adds exactly 1 to at most one count, and
\* the counts of a window sum to no more than its evaluated frames.
C19_LastSpeakingFaceCounts ==
  scene.ran =>
    /\ \A i \in EvaluatedFrames :
         scene.trace[i].cur_speaker_id =
           IF Speaking(i) = {} THEN -1 ELSE LastOf(Speaking(i)) - 1
    /\ \A m \in DOMAIN scene.num_of_active_speaker :
         scene.num_of_active_speaker[m] = Hits(m)
    /\ \A m \in MetaFaceIds \ DOMAIN scene.num_of_active_speaker : Hits(m) = 0
    /\ SumOfHits(scene.num_of_active_speaker, DOMAIN scene.num_of_active_speaker)
         <= Cardinality(EvaluatedFrames)

\* a frame in which two faces were found speaking and the second is the candidate
C19_Witness ==
  /\ scene.ran
  /\ \E i \in EvaluatedFrames :
       /\ Speaking(i) = {1, 2}
       /\ scene.trace[i].cur_speaker_id = 1
       /\ scene.num_of_active_speaker[scene.trace[i].cur_meta_face_indices[2]] >= 1

\* C20: speaker_mean_ and speaker_variance_ are zero whenever a window
\* evaluation starts, that is between any two calls, whatever windows came
\* before, and were zero when the classification of each evaluated frame of the
\* last window started.
C20_BestsStartAtZero ==
  /\ speaker_mean_ = Zero
  /\ speaker_variance_ = Zero
  /\ scene.ran =>
       \A i \in EvaluatedFrames :
         /\ scene.trace[i].mean_at_start = Zero
         /\ scene.trace[i].variance_at_start = Zero

\* a window in which a face was found speaking, raising the bests above zero,
\* followed by another evaluated frame, and by the state between two calls
C20_Witness ==
  /\ scene.ran
  /\ \E i, j \in EvaluatedFrames :
       /\ i < j
       /\ \E k \in Speaking(i) : scene.trace[i].verdicts[k].speaker_mean # Zero
       /\ scene.trace[j].mean_at_start = Zero
  /\ speaker_mean_ = Zero
  /\ speaker_variance_ = Zero

\* the length two intervals [from_1, from_1 + size_1] and [from_2, from_2 + size_2] share
Shared(from_1, size_1, from_2, size_2) ==
  LET low == IF from_1 > from_2 THEN from_1 ELSE from_2
      high == IF from_1 + size_1 < from_2 + size_2 THEN from_1 + size_1 ELSE from_2 + size_2
  IN  IF high > low THEN high - low ELSE 0

IntersectionArea(a, b) ==
  Shared(a.xmin, a.width, b.xmin, b.width) * Shared(a.ymin, a.height, b.ymin, b.height)

BoxArea(a) == a.width * a.height

UnionArea(a, b) == BoxArea(a) + BoxArea(b) - IntersectionArea(a, b)

\* C21: for two boxes of the grid, not both of zero area, GetIOU is the area
\* of the intersection divided by the area of the union, the union's area
\* being area(A) + area(B) - intersection; so 0 for disjoint boxes and 1 for
\* A = B.
C21_IntersectionOverUnion ==
  (call = "GetIOU" /\ UnionArea(scene.bbox_1, scene.bbox_2) > 0)
    => scene.result = Rat(IntersectionArea(scene.bbox_1, scene.bbox_2),
                          UnionArea(scene.bbox_1, scene.bbox_2))

\* C22: GetIOU of two boxes of zero area is 0, and a detection of zero area is
\* never matched to a previous face.
C22_DegenerateIsZero ==
  /\ (call = "GetIOU" /\ BoxArea(scene.bbox_1) = 0 /\ BoxArea(scene.bbox_2) = 0)
       => scene.result = Zero
  /\ (call = "MatchFace" /\ BoxArea(scene.face_bbox) = 0) => scene.result = -1

\* the positions (1-based) of the faces of evaluated frame i
FacesOf(i) == 1..Len(scene.trace[i].cur_meta_face_indices)

\* C23: in an evaluated frame no two faces carry the same meta face id, and
\* where the frame's hit went to the dominate meta face, the slot of that meta
\* face for the frame, whose box is output, is the face that earned the hit.
C23_OneFacePerMetaFace ==
  scene.ran =>
    \A i \in EvaluatedFrames :
      /\ \A a, b \in FacesOf(i) :
           a # b => scene.trace[i].cur_meta_face_indices[a]
                      # scene.trace[i].cur_meta_face_indices[b]
      /\ (/\ scene.trace[i].cur_speaker_id # -1
          /\ scene.trace[i].cur_meta_face_indices[scene.trace[i].cur_speaker_id + 1]
               = scene.dominate_speaker_id)
           => DominateSlots[i] = scene.trace[i].cur_speaker_id

\* C24: with the shot output enabled and output_shot_boundary_only_on_change
\* off, a call that evaluates a window, Process or Close, emits exactly one shot
\* signal, at the timestamp of the first buffered frame, and a call that
\* evaluates none emits none; whenever the previous dominate id is set, before
\* a call or as a window evaluation finds it, its box is there.
C24_OneSignalPerWindow ==
  /\ (ShotEnabled /\ ~options_.output_shot_boundary_only_on_change) =>
       IF scene.ran
       THEN Len(shot_packets) = 1 /\ shot_packets[1].timestamp = FirstStamp
       ELSE shot_packets = <<>>
  /\ (state = "open" /\ pre_dominate_speaker_id_ # -1) =>
       Len(pre_dominate_speaker_detection_) = 1
  /\ (scene.ran /\ scene.pre_id # -1) => Len(scene.pre_detection) = 1

\* a window with a dominate speaker, evaluated after one that had one too
C24_Witness ==
  /\ ShotEnabled
  /\ ~options_.output_shot_boundary_only_on_change
  /\ HasDominate
  /\ scene.pre_id # -1
  /\ Len(shot_packets) = 1
  /\ FirstStamp > first_timestamp

FirstEvaluated == CHOOSE i \in EvaluatedFrames : \A j \in EvaluatedFrames : i <= j

\* C25: after a window evaluation signal_buff_ is empty, and face_bbox_,
\* face_statistics_ and meta_face_indices_ are empty between any two calls; so
\* in every window the faces of the first evaluated frame are all new, with
\* meta face ids 0, 1, ... in detection order and histories of one value; and
\* a window with at most variance_history / 2 evaluated frames has no
\* dominate speaker.
C25_WindowStartsAfresh ==
  /\ face_bbox_ = <<>>
  /\ face_statistics_ = <<>>
  /\ meta_face_indices_ = <<>>
  /\ scene.ran =>
       /\ signal_buff_ = <<>>
       /\ EvaluatedFrames # {} =>
            /\ scene.trace[FirstEvaluated].cur_meta_face_indices
                 = [k \in 1..Len(scene.window[FirstEvaluated].detections) |-> k - 1]
            /\ \A k \in 1..Len(scene.window[FirstEvaluated].detections) :
                 Len(scene.trace[FirstEvaluated].cur_face_statistics[k]) = 1
       /\ 2 * Cardinality(EvaluatedFrames) <= options_.variance_history =>
            scene.dominate_speaker_id = -1

\* a window of one evaluated frame with two faces, mouths open, after a window
\* that had a dominate speaker: it starts afresh and finds no speaker
C25_Witness ==
  /\ scene.ran
  /\ scene.pre_id # -1
  /\ Cardinality(EvaluatedFrames) = 1
  /\ scene.trace[FirstEvaluated].cur_meta_face_indices = <<0, 1>>
  /\ scene.window[FirstEvaluated].landmark_lists = <<Opened, Opened>>
  /\ scene.dominate_speaker_id = -1

\* speaker_mean_ and speaker_variance_ as face k (1-based) of evaluated frame i found them
BestsBefore(i, k) ==
  IF k = 1
  THEN [speaker_mean |-> scene.trace[i].mean_at_start,
        speaker_variance |-> scene.trace[i].variance_at_start]
  ELSE [speaker_mean |-> scene.trace[i].verdicts[k - 1].speaker_mean,
        speaker_variance |-> scene.trace[i].verdicts[k - 1].speaker_variance]

\* C26: while the faces of a frame are classified neither speaker_mean_ nor
\* speaker_variance_ decreases from one face to the next; so a face found
\* speaking, whose mean_short and variance they then hold, is at least as
\* strong as the incumbent in both.
C26_RatchetMonotone ==
  /\ scene.ran =>
       \A i \in EvaluatedFrames : \A k \in 1..Len(scene.trace[i].verdicts) :
         /\ AtMost(BestsBefore(i, k).speaker_mean, scene.trace[i].verdicts[k].speaker_mean)
         /\ AtMost(BestsBefore(i, k).speaker_variance,
                   scene.trace[i].verdicts[k].speaker_variance)

====
